---- MODULE Spec2Model ----
(***************************************************************************)
(* link-to-JSON: a metadata-extraction HTTP service.                       *)
(*                                                                         *)
(* GET /extract?url=... passes a token-bucket limiter, validates the url,  *)
(* consults a TTL cache, and on a miss scrapes the page (plus, when the    *)
(* page names no site, the root of its domain) and caches the record.      *)
(*                                                                         *)
(* The repository holds the handler in two revisions:                      *)
(*   "inline"  src/src/link-to-JSON.go  (fetchMetadata in the same file,   *)
(*             no URI validation)                                          *)
(*   "lib"     src/unnamed/part_000     (URL.ParseRequestURI validation;   *)
(*             the fetch is delegated to GetMetadata, modelled by the      *)
(*             repository's own fetchMetadata)                             *)
(* `build` says which revision is running.                                 *)
(*                                                                         *)
(* Strings are tuples of one-character strings, so that parsing and        *)
(* concatenation are computed and not assumed.                             *)
(***************************************************************************)
EXTENDS Integers, Sequences, FiniteSets, TLC

(***************************************************************************)
(* Bounds of the model                                                     *)
(***************************************************************************)
\* requests issued in one behaviour
MaxReq == 2
\* elements of a document in the extraction scenario
MaxDocLen == 3
\* requests issued in one behaviour of the two-key scenario
MaxKeyReq == 3
\* requests issued in one behaviour of the concurrent burst scenario
MaxLimiterReq == 6
\* requests issued in one behaviour of the sequential burst scenario
MaxBurstReq == 6
\* clock advances in one behaviour
MaxAdvance == 1
\* clock advances in one behaviour of the burst scenario
MaxBurstAdvance == 2
\* clock ticks per second (the limiter refills 1/TicksPerSec token per tick)
TicksPerSec == 2

\* the places of the handler goroutines that may run at the same time
Procs == {1, 2}

(***************************************************************************)
(* Program constants                                                       *)
(***************************************************************************)
\* rate.NewLimiter(1, 3): 1 token per second, burst 3
LimiterRate == 1
LimiterBurst == 3
\* cache.New(30*time.Minute, 60*time.Minute)
TTLMinutes == 30
SweepMinutes == 60

TTL == TTLMinutes * 60 * TicksPerSec
SweepInterval == SweepMinutes * 60 * TicksPerSec
\* the limiter counts tokens in units of 1/TicksPerSec token
TokenUnit == TicksPerSec
BurstUnits == LimiterBurst * TokenUnit

Min(a, b) == IF a < b THEN a ELSE b

(***************************************************************************)
(* Strings                                                                 *)
(***************************************************************************)
Empty == << >>
Letters == {"h", "a", "b", "p", "n", "t"}
Digits == {"0", "1", "2", "3", "4", "5", "6", "7", "8", "9"}

HasPrefix(s, pre) ==
    /\ Len(s) >= Len(pre)
    /\ SubSeq(s, 1, Len(pre)) = pre

\* index of the first occurrence of character c in s, 0 when there is none
IndexOf(s, c) ==
    IF \E i \in 1..Len(s) : s[i] = c
    THEN CHOOSE i \in 1..Len(s) : s[i] = c /\ \A j \in 1..(i - 1) : s[j] # c
    ELSE 0

(***************************************************************************)
(* net/url as the program uses it                                          *)
(***************************************************************************)
\* url.getScheme: [err, scheme, rest]
RECURSIVE getSchemeFrom(_, _)
getSchemeFrom(rawURL, i) ==
    IF i > Len(rawURL)
    THEN [err |-> FALSE, scheme |-> Empty, rest |-> rawURL]
    ELSE LET c == rawURL[i] IN
         IF c \in Letters
         THEN getSchemeFrom(rawURL, i + 1)
         ELSE IF c \in Digits \cup {"+", "-", "."}
         THEN IF i = 1
              THEN [err |-> FALSE, scheme |-> Empty, rest |-> rawURL]
              ELSE getSchemeFrom(rawURL, i + 1)
         ELSE IF c = ":"
         THEN IF i = 1
              THEN [err |-> TRUE, scheme |-> Empty, rest |-> Empty]
              ELSE [err |-> FALSE,
                    scheme |-> SubSeq(rawURL, 1, i - 1),
                    rest |-> SubSeq(rawURL, i + 1, Len(rawURL))]
         ELSE [err |-> FALSE, scheme |-> Empty, rest |-> rawURL]

getScheme(rawURL) == getSchemeFrom(rawURL, 1)

ParseError == [err |-> TRUE, Scheme |-> Empty, Host |-> Empty, Opaque |-> Empty, Path |-> Empty]

\* url.parse(rawURL, viaRequest): [err, Scheme, Host, Opaque, Path]
parse(rawURL, viaRequest) ==
    IF rawURL = Empty /\ viaRequest THEN ParseError
    ELSE IF rawURL = <<"*">>
    THEN [err |-> FALSE, Scheme |-> Empty, Host |-> Empty, Opaque |-> Empty, Path |-> rawURL]
    ELSE LET s == getScheme(rawURL) IN
         IF s.err THEN ParseError
         ELSE IF ~HasPrefix(s.rest, <<"/">>)
         THEN IF s.scheme # Empty
              THEN [err |-> FALSE, Scheme |-> s.scheme, Host |-> Empty,
                    Opaque |-> s.rest, Path |-> Empty]
              ELSE IF viaRequest THEN ParseError
              ELSE LET colon == IndexOf(s.rest, ":")
                       slash == IndexOf(s.rest, "/")
                   IN  IF colon > 0 /\ (slash = 0 \/ colon < slash)
                       THEN ParseError
                       ELSE [err |-> FALSE, Scheme |-> Empty, Host |-> Empty,
                             Opaque |-> Empty, Path |-> s.rest]
         ELSE IF /\ (s.scheme # Empty \/ (~viaRequest /\ ~HasPrefix(s.rest, <<"/", "/", "/">>)))
                 /\ HasPrefix(s.rest, <<"/", "/">>)
         THEN LET after == SubSeq(s.rest, 3, Len(s.rest))
                  slash == IndexOf(after, "/")
                  authority == IF slash = 0 THEN after ELSE SubSeq(after, 1, slash - 1)
                  path == IF slash = 0 THEN Empty ELSE SubSeq(after, slash, Len(after))
              IN  [err |-> FALSE, Scheme |-> s.scheme, Host |-> authority,
                   Opaque |-> Empty, Path |-> path]
         ELSE [err |-> FALSE, Scheme |-> s.scheme, Host |-> Empty,
               Opaque |-> Empty, Path |-> s.rest]

\* URL.Parse and URL.ParseRequestURI (the alphabet has no '#')
Parse(rawURL) == parse(rawURL, FALSE)
ParseRequestURI(rawURL) == parse(rawURL, TRUE)

\* getBaseDomain(url)
getBaseDomain(url) ==
    LET parsedURL == Parse(url) IN
    IF parsedURL.err THEN Empty
    ELSE parsedURL.Scheme \o <<":", "/", "/">> \o parsedURL.Host

(***************************************************************************)
(* Documents and the records extracted from them                           *)
(***************************************************************************)
\* an HTML element: el is "title", "meta:name", "meta:property" or "link";
\* k is the value of name / property / rel; v is the text / content / href
Elem(el, k, v) == [el |-> el, k |-> k, v |-> v]

\* WebImage{}
ZeroImage == [URL |-> Empty, Alt |-> Empty, Type |-> Empty, Width |-> 0, Height |-> 0]

\* &ResponseItem{URL: url, Images: []WebImage{}} with Domain = getBaseDomain(url)
NewResult(url) ==
    [Title |-> Empty, Description |-> Empty, Images |-> << >>, Sitename |-> Empty,
     Favicon |-> Empty, Duration |-> 0, Domain |-> getBaseDomain(url), URL |-> url]

\* strconv.Atoi: [err, n]
DigitValue(c) ==
    CASE c = "0" -> 0 [] c = "1" -> 1 [] c = "2" -> 2 [] c = "3" -> 3 [] c = "4" -> 4
      [] c = "5" -> 5 [] c = "6" -> 6 [] c = "7" -> 7 [] c = "8" -> 8 [] c = "9" -> 9

RECURSIVE DigitsValue(_, _)
DigitsValue(s, acc) ==
    IF s = Empty THEN acc ELSE DigitsValue(Tail(s), acc * 10 + DigitValue(Head(s)))

\* Atoi, reading the leading digits and reporting no error (as C's atoi does)
AtoiPrefix(s) ==
    LET RECURSIVE Leading(_)
        Leading(r) == IF r = Empty \/ Head(r) \notin Digits THEN Empty
                      ELSE <<Head(r)>> \o Leading(Tail(r))
    IN  [err |-> FALSE, n |-> DigitsValue(Leading(s), 0)]

Atoi(s) ==
    LET signed == s # Empty /\ Head(s) \in {"+", "-"}
        digits == IF signed THEN Tail(s) ELSE s
    IN  IF digits = Empty \/ \E i \in 1..Len(digits) : digits[i] \notin Digits
        THEN [err |-> TRUE, n |-> 0]
        ELSE [err |-> FALSE,
              n |-> IF signed /\ Head(s) = "-"
                    THEN 0 - DigitsValue(digits, 0)
                    ELSE DigitsValue(digits, 0)]

\* the selector list cut down to link[rel="icon"]
IconRelsIconOnly == {"icon"}

IconRels == {"icon", "shortcut icon", "apple-touch-icon", "apple-touch-icon-precomposed"}

\* the selectors of the c.OnHTML registrations, in registration order
Selects(cb, e) ==
    CASE cb = 1 -> e.el = "title"
      [] cb = 2 -> e.el = "meta:name" /\ e.k = "description"
      [] cb = 3 -> e.el = "link" /\ e.k \in IconRels
      [] cb = 4 -> e.el = "meta:property" /\ e.k = "og:site_name"
      [] cb = 5 -> e.el = "meta:property" /\ e.k = "og:image"
      [] cb = 6 -> e.el = "meta:property" /\ e.k = "og:image:alt"
      [] cb = 7 -> e.el = "meta:property" /\ e.k = "og:image:type"
      [] cb = 8 -> e.el = "meta:property" /\ e.k = "og:image:width"
      [] cb = 9 -> e.el = "meta:property" /\ e.k = "og:image:height"

NumCallbacks == 9

\* the callback bodies; st = [result, webImage]
OnHTML(cb, st, e) ==
    CASE cb = 1 -> IF st.result.Title = Empty
                   THEN [st EXCEPT !.result.Title = e.v] ELSE st
      [] cb = 2 -> [st EXCEPT !.result.Description = e.v]
      [] cb = 3 -> IF st.result.Favicon = Empty
                   THEN [st EXCEPT !.result.Favicon = st.result.Domain \o e.v] ELSE st
      [] cb = 4 -> [st EXCEPT !.result.Sitename = e.v]
      [] cb = 5 -> [st EXCEPT !.webImage.URL = e.v]
      [] cb = 6 -> [st EXCEPT !.webImage.Alt = e.v]
      [] cb = 7 -> [st EXCEPT !.webImage.Type = e.v]
      [] cb = 8 -> LET width == Atoi(e.v) IN
                   IF ~width.err THEN [st EXCEPT !.webImage.Width = width.n] ELSE st
      [] cb = 9 -> LET height == Atoi(e.v) IN
                   IF ~height.err THEN [st EXCEPT !.webImage.Height = height.n] ELSE st

\* Each, calling back for the first matching element only
RECURSIVE EachFirstOnly(_, _, _, _)
EachFirstOnly(cb, st, doc, i) ==
    IF i > Len(doc) THEN st
    ELSE IF Selects(cb, doc[i]) THEN OnHTML(cb, st, doc[i])
    ELSE EachFirstOnly(cb, st, doc, i + 1)

\* Each, calling back in reverse document order
RECURSIVE EachBackwards(_, _, _, _)
EachBackwards(cb, st, doc, i) ==
    IF i > Len(doc) THEN st
    ELSE LET e == doc[Len(doc) + 1 - i] IN
         EachBackwards(cb, IF Selects(cb, e) THEN OnHTML(cb, st, e) ELSE st, doc, i + 1)

\* one registration run over the matching elements in document order
RECURSIVE Each(_, _, _, _)
Each(cb, st, doc, i) ==
    IF i > Len(doc) THEN st
    ELSE Each(cb, IF Selects(cb, doc[i]) THEN OnHTML(cb, st, doc[i]) ELSE st, doc, i + 1)

\* the registrations run one after the other
RECURSIVE RunCallbacks(_, _, _)
RunCallbacks(cb, st, doc) ==
    IF cb > NumCallbacks THEN st
    ELSE RunCallbacks(cb + 1, Each(cb, st, doc, 1), doc)

\* OnScraped, appending the descriptor only when an og:image gave it a URL
OnScrapedIfImage(st) ==
    IF st.webImage.URL = Empty THEN st.result
    ELSE [st.result EXCEPT !.Images = Append(@, st.webImage)]

\* c.OnScraped: the image descriptor is appended once the document is done
OnScraped(st) == [st.result EXCEPT !.Images = Append(@, st.webImage)]

\* the effect of a successful c.Visit(url) on result
Scrape(result, doc) ==
    OnScraped(RunCallbacks(1, [result |-> result, webImage |-> ZeroImage], doc))

\* c2.OnHTML(`meta[property="og:title"]`): each match overwrites Sitename
RECURSIVE ScrapeDomainFrom(_, _, _)
ScrapeDomainFrom(result, doc, i) ==
    IF i > Len(doc) THEN result
    ELSE ScrapeDomainFrom(
             IF doc[i].el = "meta:property" /\ doc[i].k = "og:title"
             THEN [result EXCEPT !.Sitename = doc[i].v] ELSE result,
             doc, i + 1)

ScrapeDomain(result, doc) == ScrapeDomainFrom(result, doc, 1)

\* the domain root visited after every page
NeedsDomainVisitAlways(result) == TRUE

\* whether the primary visit is followed by a visit of the domain root
NeedsDomainVisit(result) == result.Sitename = Empty

(***************************************************************************)
(* Inputs: the url query parameter and what the network answers            *)
(***************************************************************************)
UrlMissing == Empty
\* h://a
UrlA == <<"h", ":", "/", "/", "a">>
\* not-a-url
UrlNotAUrl == <<"n", "-", "a">>
\* /p (an absolute path, no scheme and no host)
UrlPath == <<"/", "p">>

Urls == {UrlMissing, UrlA, UrlNotAUrl, UrlPath}

\* h://b/p
UrlB == <<"h", ":", "/", "/", "b", "/", "p">>

\* a page that names its site
DocSite == << Elem("title", "", <<"t">>), Elem("meta:property", "og:site_name", <<"n">>) >>
\* a page that does not; as a domain root it carries an og:title
DocPlain == << Elem("title", "", <<"p">>), Elem("meta:property", "og:title", <<"h">>) >>

Docs == {DocSite, DocPlain}

\* c.Visit(u) can reach a server only when u names a host
Reachable(u) == ~Parse(u).err /\ Parse(u).Host # Empty

(***************************************************************************)
(* The User-Agent                                                          *)
(***************************************************************************)
\* the environment: LINK2JSON_USER_AGENT unset, set to "", set to "b"
EnvUnset == <<"unset">>
EnvSet(v) == <<"set", v>>
Environs == {EnvUnset, EnvSet(Empty), EnvSet(<<"b">>)}

\* os.Getenv: the value, "" when the variable is not set
Getenv(e) == IF e = EnvUnset THEN Empty ELSE e[2]

\* the default of main ("Mozilla/5.0 ..."), abbreviated
DefaultUserAgent == <<"m">>

\* main: userAgent := os.Getenv("LINK2JSON_USER_AGENT"), the default when it
\* is "". The := declares a variable local to main.
mainUserAgent(env) == IF env = Empty THEN DefaultUserAgent ELSE env

\* the package-level userAgent: declared without a value and assigned nowhere,
\* so it holds the zero value of string for the whole run
userAgent == Empty

\* c.OnRequest: r.Headers.Set("User-Agent", userAgent), the package-level variable
OnRequest == userAgent

\* c2 registers no OnRequest: colly's own User-Agent, abbreviated
CollyUserAgent == <<"c">>

(***************************************************************************)
(* State                                                                   *)
(*                                                                         *)
(* Time is kept relative to the present: the limiter holds the tokens it   *)
(* has now, a cache item the life it has left, a handler the time since    *)
(* its startTime. Advance moves all of them together.                      *)
(***************************************************************************)
VARIABLES
    build,      \* "inline" or "lib": the revision of the handler
    environ,    \* the value of LINK2JSON_USER_AGENT in the process environment
    advances,   \* clock advances so far
    sweepIn,    \* ticks until the cache janitor's ticker fires
    requests,   \* requests issued so far
    tokens,     \* rateLimiter: the tokens in the bucket, in units of 1/TicksPerSec
    cch,        \* cch: url -> [Object, ttl], Object a pointer into heap
    heap,       \* the ResponseItem values allocated so far, by pointer
    proc,       \* the handlers in flight, oldest first: [pc, url, elapsed, metadata]
    obs,        \* what each of them has done so far (observation only)
    resp,       \* the response sent by the latest step, if it sent one (observation only)
    answered,   \* pointer -> what its storing request was answered with (observation only)
    admits,     \* the limiter's verdicts in arrival order (observation only)
    sinceFirst, \* ticks since the first request, capped (observation only)
    sincePrev   \* ticks since the latest request, capped (observation only)

vars == <<build, environ, advances, sweepIn, requests, tokens, cch, heap, proc, obs, resp,
          answered, admits, sinceFirst, sincePrev>>

\* the observation clocks stop counting here
ClockCap == 2 * TicksPerSec + 1

\* a handler past the limiter and the url checks, about to call fetchMetadata
NewProc(url) == [pc |-> "get", url |-> url, elapsed |-> 0, metadata |-> 0]

\* the handlers in flight without the p-th
Remove(seq, p) == [i \in 1..(Len(seq) - 1) |-> IF i < p THEN seq[i] ELSE seq[i + 1]]

NoObs ==
    [admitted |-> FALSE, lookups |-> 0, hit |-> FALSE, fetches |-> << >>,
     sets |-> 0, duration |-> 0, after |-> {}, live |-> 0]

NoResp == [url |-> Empty, status |-> 0, error |-> "", body |-> << >>, obs |-> NoObs]

\* cache.New: no items
EmptyCache == [u \in {} |-> [Object |-> 0, ttl |-> 0]]

\* the process starts: e is what the environment holds for LINK2JSON_USER_AGENT
Start(e) ==
    /\ build \in {"inline", "lib"}
    /\ environ = e
    /\ advances = 0
    /\ sweepIn = SweepInterval
    /\ requests = 0
    /\ tokens = BurstUnits
    /\ cch = EmptyCache
    /\ heap = << >>
    /\ proc = << >>
    /\ obs = << >>
    /\ resp = NoResp
    /\ answered = << >>
    /\ admits = << >>
    /\ sinceFirst = 0
    /\ sincePrev = 0

\* LINK2JSON_USER_AGENT is not set
Init == Start(Getenv(EnvUnset))

(***************************************************************************)
(* rateLimiter                                                             *)
(***************************************************************************)
\* the bucket refilled without regard to its capacity
RefillUncapped(t, d) == t + d * LimiterRate

\* the bucket after d ticks: LimiterRate tokens per second, at most the burst
Refill(t, d) == Min(BurstUnits, t + d * LimiterRate)

\* Allow, admitting on any fraction of a token
AllowOnFraction(t) ==
    IF t > 0
    THEN [ok |-> TRUE, tokens |-> IF t - TokenUnit >= 0 THEN t - TokenUnit ELSE 0]
    ELSE [ok |-> FALSE, tokens |-> t]

\* Allow, a denied call emptying the bucket
AllowDraining(t) ==
    IF t - TokenUnit >= 0
    THEN [ok |-> TRUE, tokens |-> t - TokenUnit]
    ELSE [ok |-> FALSE, tokens |-> 0]

\* Allow, taking two tokens
AllowTakingTwo(t) ==
    IF t - TokenUnit >= 0
    THEN [ok |-> TRUE, tokens |-> IF t - 2 * TokenUnit >= 0 THEN t - 2 * TokenUnit ELSE 0]
    ELSE [ok |-> FALSE, tokens |-> t]

\* rateLimiter.Allow(): [ok, tokens]
Allow(t) ==
    IF t - TokenUnit >= 0
    THEN [ok |-> TRUE, tokens |-> t - TokenUnit]
    ELSE [ok |-> FALSE, tokens |-> t]

(***************************************************************************)
(* cch                                                                     *)
(***************************************************************************)
\* an item is expired once the clock is past its expiration
Expired(item) == item.ttl < 0

\* Get, never finding anything
CacheGetMissing(c, k) == [found |-> FALSE, Object |-> 0]

\* Get, returning items whose TTL has run out
CacheGetStale(c, k) ==
    IF k \in DOMAIN c
    THEN [found |-> TRUE, Object |-> c[k].Object]
    ELSE [found |-> FALSE, Object |-> 0]

\* cch.Get(k): [found, Object]
CacheGet(c, k) ==
    IF k \in DOMAIN c /\ ~Expired(c[k])
    THEN [found |-> TRUE, Object |-> c[k].Object]
    ELSE [found |-> FALSE, Object |-> 0]

\* Set, an item already stored under k keeping its expiry
CacheSetKeepingExpiry(c, k, x) ==
    [u \in DOMAIN c \cup {k} |->
        IF u = k THEN [Object |-> x, ttl |-> IF k \in DOMAIN c THEN c[k].ttl ELSE TTL]
        ELSE c[u]]

\* Set, keyed by the domain of the record
CacheSetUnderDomain(c, k, x) ==
    [u \in DOMAIN c \cup {heap[x].Domain} |->
        IF u = heap[x].Domain THEN [Object |-> x, ttl |-> TTL] ELSE c[u]]

\* cch.Set(k, x, cache.DefaultExpiration)
CacheSet(c, k, x) ==
    [u \in DOMAIN c \cup {k} |-> IF u = k THEN [Object |-> x, ttl |-> TTL] ELSE c[u]]

\* the janitor's DeleteExpired
DeleteExpired(c) == [u \in {k \in DOMAIN c : ~Expired(c[k])} |-> c[u]]

\* the items after d ticks; all expired items look alike
Age(c, d) ==
    [u \in DOMAIN c |-> [c[u] EXCEPT !.ttl = IF @ - d < 0 THEN 0 - 1 ELSE @ - d]]

(***************************************************************************)
(* The GET /extract handler                                                *)
(***************************************************************************)
\* the url checks between the limiter and the fetch: "" when the url passes
Validate(b, url) ==
    IF url = Empty THEN "URL parameter is required"
    ELSE IF b = "lib" /\ ParseRequestURI(url).err THEN "Invalid URL"
    ELSE ""

\* time.Since(startTime).Milliseconds()
Milliseconds(ticks) == (ticks * 1000) \div TicksPerSec

\* c.JSON(status, gin.H{"error": error}) and return
Failure(url, status, error, o) ==
    [url |-> url, status |-> status, error |-> error, body |-> << >>, obs |-> o]

\* a record without its duration
Fields(r) == [r EXCEPT !.Duration = 0]

\* the pointers whose storing request has been answered
Answered == {i \in DOMAIN answered : answered[i] # << >>}

\* a request arrives: limiter check, startTime, url checks; max bounds the run
Handle(p, u, max) ==
    /\ p = Len(proc) + 1
    /\ requests < max
    /\ requests' = requests + 1
    /\ LET a == Allow(tokens)
           admitted == [NoObs EXCEPT !.admitted = TRUE, !.after = Answered]
       IN  /\ tokens' = a.tokens
           /\ IF ~a.ok
              THEN /\ resp' = Failure(u, 429, "Too many requests", NoObs)
                   /\ UNCHANGED <<proc, obs>>
              ELSE IF Validate(build, u) # ""
              THEN /\ resp' = Failure(u, 400, Validate(build, u), admitted)
                   /\ UNCHANGED <<proc, obs>>
              ELSE /\ proc' = Append(proc, NewProc(u))
                   /\ obs' = Append(obs, admitted)
                   /\ resp' = NoResp
    /\ UNCHANGED <<build, environ, advances, sweepIn, cch, heap, answered>>

\* observation: the object of the item stored under url if its TTL has not run out
LiveObject(url) == IF url \in DOMAIN cch /\ cch[url].ttl >= 0 THEN cch[url].Object ELSE 0

\* observation: one fetch, its target, the User-Agent it carried, its outcome
\* and the document received
Fetched(target, agent, ok, doc) ==
    [target |-> target, agent |-> agent, ok |-> ok, doc |-> doc]

\* fetchMetadata: cch.Get(url); on a miss the result record is allocated
Lookup(p) ==
    /\ p \in DOMAIN proc
    /\ proc[p].pc = "get"
    /\ LET g == CacheGet(cch, proc[p].url)
           seen == [obs[p] EXCEPT !.lookups = @ + 1, !.live = LiveObject(proc[p].url)]
       IN
       IF g.found
       THEN /\ proc' = [proc EXCEPT ![p].pc = "duration", ![p].metadata = g.Object]
            /\ obs' = [obs EXCEPT ![p] = [seen EXCEPT !.hit = TRUE]]
            /\ UNCHANGED <<heap, answered>>
       ELSE /\ heap' = Append(heap, NewResult(proc[p].url))
            /\ answered' = Append(answered, << >>)
            /\ proc' = [proc EXCEPT ![p].pc = "visit", ![p].metadata = Len(heap) + 1]
            /\ obs' = [obs EXCEPT ![p] = seen]
    /\ resp' = NoResp
    /\ UNCHANGED <<build, environ, advances, sweepIn, requests, tokens, cch,
                   admits, sinceFirst, sincePrev>>

\* a record nothing points to any more
Dropped == NewResult(Empty)

\* a failed fetch answering 500 after caching what was extracted so far
FetchFailedCaching(p, target, agent) ==
    /\ resp' = Failure(proc[p].url, 500, "Failed to fetch metadata",
                       [obs[p] EXCEPT !.fetches = Append(@, Fetched(target, agent, FALSE, << >>))])
    /\ cch' = CacheSet(cch, proc[p].url, proc[p].metadata)
    /\ proc' = Remove(proc, p)
    /\ obs' = Remove(obs, p)
    /\ UNCHANGED <<build, environ, advances, sweepIn, requests, tokens, heap, answered,
                   admits, sinceFirst, sincePrev>>

\* return nil, err; the handler answers 500 (the unfinished result is dropped)
FetchFailed(p, target, agent) ==
    /\ resp' = Failure(proc[p].url, 500, "Failed to fetch metadata",
                       [obs[p] EXCEPT !.fetches = Append(@, Fetched(target, agent, FALSE, << >>))])
    /\ proc' = Remove(proc, p)
    /\ obs' = Remove(obs, p)
    /\ heap' = [heap EXCEPT ![proc[p].metadata] = Dropped]
    /\ UNCHANGED <<build, environ, advances, sweepIn, requests, tokens, cch, answered,
                   admits, sinceFirst, sincePrev>>

\* fetchMetadata: c.Visit(url) fails
VisitFails(p) ==
    /\ p \in DOMAIN proc
    /\ proc[p].pc = "visit"
    /\ FetchFailed(p, proc[p].url, OnRequest)

\* fetchMetadata: c.Visit(url) succeeds and the callbacks fill result
Visit(p, doc) ==
    /\ p \in DOMAIN proc
    /\ proc[p].pc = "visit"
    /\ Reachable(proc[p].url)
    /\ LET result == Scrape(heap[proc[p].metadata], doc) IN
       /\ heap' = [heap EXCEPT ![proc[p].metadata] = result]
       /\ proc' = [proc EXCEPT ![p].pc =
                      IF NeedsDomainVisit(result) THEN "visitDomain" ELSE "set"]
    /\ obs' = [obs EXCEPT ![p].fetches = Append(@, Fetched(proc[p].url, OnRequest, TRUE, doc))]
    /\ resp' = NoResp
    /\ UNCHANGED <<build, environ, advances, sweepIn, requests, tokens, cch, answered,
                   admits, sinceFirst, sincePrev>>

\* fetchMetadata: c2.Visit(result.Domain) fails
VisitDomainFails(p) ==
    /\ p \in DOMAIN proc
    /\ proc[p].pc = "visitDomain"
    /\ FetchFailed(p, heap[proc[p].metadata].Domain, CollyUserAgent)

\* fetchMetadata: c2.Visit(result.Domain) succeeds
VisitDomain(p, doc) ==
    /\ p \in DOMAIN proc
    /\ proc[p].pc = "visitDomain"
    /\ Reachable(heap[proc[p].metadata].Domain)
    /\ heap' = [heap EXCEPT ![proc[p].metadata] = ScrapeDomain(@, doc)]
    /\ proc' = [proc EXCEPT ![p].pc = "set"]
    /\ obs' = [obs EXCEPT ![p].fetches =
                  Append(@, Fetched(heap[proc[p].metadata].Domain, CollyUserAgent, TRUE, doc))]
    /\ resp' = NoResp
    /\ UNCHANGED <<build, environ, advances, sweepIn, requests, tokens, cch, answered,
                   admits, sinceFirst, sincePrev>>

\* Set, waiting until no handler is inside a fetch
StoreBehindFetch(p) ==
    /\ p \in DOMAIN proc
    /\ proc[p].pc = "set"
    /\ \A q \in DOMAIN proc : proc[q].pc \notin {"visit", "visitDomain"}
    /\ cch' = CacheSet(cch, proc[p].url, proc[p].metadata)
    /\ proc' = [proc EXCEPT ![p].pc = "duration"]
    /\ obs' = [obs EXCEPT ![p].sets = @ + 1]
    /\ resp' = NoResp
    /\ UNCHANGED <<build, environ, advances, sweepIn, requests, tokens, heap, answered,
                   admits, sinceFirst, sincePrev>>

\* fetchMetadata: cch.Set(url, result, cache.DefaultExpiration); return result
Store(p) ==
    /\ p \in DOMAIN proc
    /\ proc[p].pc = "set"
    /\ cch' = CacheSet(cch, proc[p].url, proc[p].metadata)
    /\ proc' = [proc EXCEPT ![p].pc = "duration"]
    /\ obs' = [obs EXCEPT ![p].sets = @ + 1]
    /\ resp' = NoResp
    /\ UNCHANGED <<build, environ, advances, sweepIn, requests, tokens, heap, answered,
                   admits, sinceFirst, sincePrev>>

\* metadata.Duration = int(time.Since(startTime).Milliseconds())
SetDuration(p) ==
    /\ p \in DOMAIN proc
    /\ proc[p].pc = "duration"
    /\ LET duration == Milliseconds(proc[p].elapsed) IN
       /\ heap' = [heap EXCEPT ![proc[p].metadata].Duration = duration]
       /\ obs' = [obs EXCEPT ![p].duration = duration]
    /\ proc' = [proc EXCEPT ![p].pc = "respond"]
    /\ resp' = NoResp
    /\ UNCHANGED <<build, environ, advances, sweepIn, requests, tokens, cch, answered,
                   admits, sinceFirst, sincePrev>>

\* c.JSON(http.StatusOK, metadata)
Respond(p) ==
    /\ p \in DOMAIN proc
    /\ proc[p].pc = "respond"
    /\ LET body == <<heap[proc[p].metadata]>> IN
       /\ resp' = [url |-> proc[p].url, status |-> 200, error |-> "",
                   body |-> body, obs |-> obs[p]]
       /\ answered' = IF obs[p].hit THEN answered
                      ELSE [answered EXCEPT ![proc[p].metadata] = <<Fields(body[1])>>]
    /\ proc' = Remove(proc, p)
    /\ obs' = Remove(obs, p)
    /\ UNCHANGED <<build, environ, advances, sweepIn, requests, tokens, cch, heap,
                   admits, sinceFirst, sincePrev>>

(***************************************************************************)
(* The environment: the clock and the cache janitor                        *)
(***************************************************************************)
\* the clock moves by a TTL, or up to the janitor's next run
ClockSteps == {TTL, sweepIn}
\* in the burst scenario it moves by a tick or a second
BurstSteps == {1, TicksPerSec}

Advance(d, max) ==
    /\ advances < max
    /\ d > 0
    /\ d <= sweepIn
    /\ advances' = advances + 1
    /\ sweepIn' = sweepIn - d
    /\ tokens' = Refill(tokens, d)
    /\ cch' = Age(cch, d)
    /\ proc' = [p \in DOMAIN proc |-> [proc[p] EXCEPT !.elapsed = @ + d]]
    /\ resp' = NoResp
    /\ UNCHANGED <<build, environ, requests, heap, obs, answered>>

\* the janitor's ticker fires every SweepInterval: DeleteExpired
Sweep ==
    /\ sweepIn = 0
    /\ cch' = DeleteExpired(cch)
    /\ sweepIn' = SweepInterval
    /\ resp' = NoResp
    /\ UNCHANGED <<build, environ, advances, requests, tokens, heap, proc, obs, answered,
                   admits, sinceFirst, sincePrev>>

\* arrivals and clock steps, the burst scenario's observation left alone
Request(p, u) ==
    /\ Handle(p, u, MaxReq)
    /\ UNCHANGED <<admits, sinceFirst, sincePrev>>

Tick(d) ==
    /\ Advance(d, MaxAdvance)
    /\ UNCHANGED <<admits, sinceFirst, sincePrev>>

Next ==
    \/ \E p \in Procs, u \in Urls : Request(p, u)
    \/ \E p \in Procs : Lookup(p)
    \/ \E p \in Procs : VisitFails(p)
    \/ \E p \in Procs, doc \in Docs : Visit(p, doc)
    \/ \E p \in Procs : VisitDomainFails(p)
    \/ \E p \in Procs, doc \in Docs : VisitDomain(p, doc)
    \/ \E p \in Procs : Store(p)
    \/ \E p \in Procs : SetDuration(p)
    \/ \E p \in Procs : Respond(p)
    \/ \E d \in ClockSteps : Tick(d)
    \/ Sweep

Spec == Init /\ [][Next]_vars

(***************************************************************************)
(* The burst scenario: one request at a time, a finer clock, and the       *)
(* limiter's verdicts observed with their arrival times                    *)
(***************************************************************************)
\* the limiter's verdict on this arrival, as observed
Verdict(ok) ==
    [first |-> IF admits = << >> THEN 0 ELSE sinceFirst,
     gap |-> IF admits = << >> THEN ClockCap ELSE sincePrev,
     ok |-> ok]

BurstRequest(u) ==
    /\ Handle(1, u, MaxBurstReq)
    /\ admits' = Append(admits, Verdict(Allow(tokens).ok))
    /\ sinceFirst' = IF admits = << >> THEN 0 ELSE sinceFirst
    /\ sincePrev' = 0

BurstTick(d) ==
    /\ Advance(d, MaxBurstAdvance)
    /\ admits' = admits
    /\ sinceFirst' = IF admits = << >> THEN 0 ELSE Min(ClockCap, sinceFirst + d)
    /\ sincePrev' = IF admits = << >> THEN 0 ELSE Min(ClockCap, sincePrev + d)

NextBurst ==
    \/ \E u \in Urls : BurstRequest(u)
    \/ Lookup(1)
    \/ VisitFails(1)
    \/ \E doc \in Docs : Visit(1, doc)
    \/ VisitDomainFails(1)
    \/ \E doc \in Docs : VisitDomain(1, doc)
    \/ Store(1)
    \/ SetDuration(1)
    \/ Respond(1)
    \/ \E d \in BurstSteps : BurstTick(d)

SpecBurst == Init /\ [][NextBurst]_vars

(***************************************************************************)
(* The extraction scenario: one request at a time, any environment, and    *)
(* as the page any document of up to MaxDocLen elements                    *)
(***************************************************************************)
\* the sequences over S of up to n elements
SeqsUpTo(S, n) == UNION {[1..k -> S] : k \in 0..n}

TitleElems ==
    {Elem("title", "", <<"a">>), Elem("title", "", <<"b">>), Elem("title", "", Empty)}

DescriptionElems ==
    {Elem("meta:name", "description", <<"a">>), Elem("meta:name", "description", <<"b">>),
     Elem("meta:name", "keywords", <<"a">>)}

IconElems ==
    {Elem("link", "icon", <<"/", "a">>),
     Elem("link", "icon", Empty),
     Elem("link", "shortcut icon", <<"/", "b">>),
     Elem("link", "apple-touch-icon", <<"/", "t">>),
     Elem("link", "apple-touch-icon-precomposed", <<"/", "p">>),
     Elem("link", "stylesheet", <<"/", "n">>)}

ImageElems ==
    {Elem("meta:property", "og:image", <<"a">>),
     Elem("meta:property", "og:image", <<"b">>),
     Elem("meta:property", "og:image:alt", <<"t">>),
     Elem("meta:property", "og:image:width", <<"1", "2">>),
     Elem("meta:property", "og:image:width", <<"a", "b", "c">>),
     Elem("meta:property", "og:image:height", <<"3">>),
     Elem("meta:property", "og:image:height", <<"1", "a">>)}

MixedElems ==
    {Elem("title", "", <<"a">>),
     Elem("meta:name", "description", <<"a">>),
     Elem("link", "icon", <<"/", "a">>),
     Elem("meta:property", "og:image:type", <<"t">>),
     Elem("meta:property", "og:image:width", <<"a", "b", "c">>),
     Elem("meta:property", "og:site_name", <<"n">>)}

\* the pages served in this scenario
Pages ==
    UNION {SeqsUpTo(S, MaxDocLen) :
              S \in {TitleElems, DescriptionElems, IconElems, ImageElems, MixedElems}}

InitFetch == \E e \in Environs : Start(Getenv(e))

\* c.Visit(url) receives one of the pages
VisitPage ==
    /\ proc # << >>
    /\ proc[1].pc = "visit"
    /\ \E doc \in Pages : Visit(1, doc)

NextFetch ==
    \/ Request(1, UrlA)
    \/ Lookup(1)
    \/ VisitFails(1)
    \/ VisitPage
    \/ VisitDomainFails(1)
    \/ \E doc \in Docs : VisitDomain(1, doc)
    \/ Store(1)
    \/ SetDuration(1)
    \/ Respond(1)

SpecFetch == InitFetch /\ [][NextFetch]_vars

(***************************************************************************)
(* The concurrent burst scenario: requests arriving while others are in    *)
(* flight, the limiter's verdicts observed with their arrival times; the   *)
(* network is down, so that every fetch fails                              *)
(***************************************************************************)
LimiterUrls == {UrlMissing, UrlA}

LimiterRequest(p, u) ==
    /\ Handle(p, u, MaxLimiterReq)
    /\ admits' = Append(admits, Verdict(Allow(tokens).ok))
    /\ sinceFirst' = IF admits = << >> THEN 0 ELSE sinceFirst
    /\ sincePrev' = 0

NextLimiter ==
    \/ \E p \in Procs, u \in LimiterUrls : LimiterRequest(p, u)
    \/ \E p \in Procs : Lookup(p)
    \/ \E p \in Procs : VisitFails(p)
    \/ \E d \in BurstSteps : BurstTick(d)

SpecLimiter == Init /\ [][NextLimiter]_vars

(***************************************************************************)
(* The two-key scenario: concurrent requests for two pages, the clock      *)
(* standing still                                                          *)
(***************************************************************************)
KeyUrls == {UrlA, UrlB}

KeyRequest(p, u) ==
    /\ Handle(p, u, MaxKeyReq)
    /\ UNCHANGED <<admits, sinceFirst, sincePrev>>

NextKeys ==
    \/ \E p \in Procs, u \in KeyUrls : KeyRequest(p, u)
    \/ \E p \in Procs : Lookup(p)
    \/ \E p \in Procs : VisitFails(p)
    \/ \E p \in Procs, doc \in Docs : Visit(p, doc)
    \/ \E p \in Procs : VisitDomainFails(p)
    \/ \E p \in Procs, doc \in Docs : VisitDomain(p, doc)
    \/ \E p \in Procs : Store(p)
    \/ \E p \in Procs : SetDuration(p)
    \/ \E p \in Procs : Respond(p)

SpecKeys == Init /\ [][NextKeys]_vars

(***************************************************************************)
(* Claims                                                                  *)
(***************************************************************************)
OneSecond == TicksPerSec

\* C1: from a fresh limiter, of the requests arriving within one second of the
\* first, exactly the first LimiterBurst are admitted and the others get 429;
\* and when, the burst used up within that second, the next request comes one
\* second after the latest, it is admitted and one right after it is denied.
C1_BurstThenOnePerSecond ==
    /\ \A k \in 1..Len(admits) :
          admits[k].first < OneSecond => (admits[k].ok <=> k <= LimiterBurst)
    /\ \A m \in LimiterBurst..(Len(admits) - 1) :
          (admits[m].first < OneSecond /\ admits[m + 1].gap = OneSecond)
              => /\ admits[m + 1].ok
                 /\ (m + 2 <= Len(admits) /\ admits[m + 2].gap = 0) => ~admits[m + 2].ok

\* a burst of four within half a tick-second, a second's wait, an admitted request
\* and a denied one right after it
C1_Witness ==
    /\ Len(admits) = LimiterBurst + 3
    /\ \A k \in 1..(LimiterBurst + 1) : admits[k].first < OneSecond
    /\ ~admits[LimiterBurst + 1].ok
    /\ admits[LimiterBurst + 2].gap = OneSecond
    /\ admits[LimiterBurst + 2].ok
    /\ admits[LimiterBurst + 3].gap = 0
    /\ ~admits[LimiterBurst + 3].ok

\* C2: a step that answers 429 answers {"error": "Too many requests"}, is the
\* whole of its request (no lookup, no fetch, no store) and leaves the limiter's
\* tokens, the cache, the stored records and the other handlers as they were.
C2_DeniedChangesNothing ==
    [][resp'.status = 429 =>
          /\ resp'.error = "Too many requests"
          /\ resp'.body = << >>
          /\ resp'.obs = NoObs
          /\ tokens' = tokens
          /\ cch' = cch
          /\ heap' = heap
          /\ proc' = proc
          /\ obs' = obs]_vars

\* a valid url denied while the cache holds an entry and the bucket a fraction
C2_Witness ==
    /\ resp.status = 429
    /\ resp.url = UrlA
    /\ UrlA \in DOMAIN cch
    /\ tokens > 0

\* an absolute URI names a scheme
IsAbsoluteURI(url) == ~Parse(url).err /\ Parse(url).Scheme # Empty

\* C3: an admitted request without url is answered 400 "URL parameter is
\* required"; one whose url is no absolute URI is answered 400 "Invalid URL";
\* neither reaches the fetcher (no cache lookup, no fetch).
C3_InvalidUrlRejected ==
    /\ \A p \in DOMAIN proc : IsAbsoluteURI(proc[p].url)
    /\ (resp.status # 0 /\ resp.obs.admitted /\ resp.url = Empty)
          => /\ resp.status = 400
             /\ resp.error = "URL parameter is required"
             /\ resp.obs.lookups = 0
             /\ resp.obs.fetches = << >>
    /\ (resp.status # 0 /\ resp.obs.admitted /\ resp.url # Empty /\ ~IsAbsoluteURI(resp.url))
          => /\ resp.status = 400
             /\ resp.error = "Invalid URL"
             /\ resp.obs.lookups = 0
             /\ resp.obs.fetches = << >>

\* C4: a request that arrives after the request that stored an entry was
\* answered, and finds that entry within its TTL, issues no fetch and is
\* answered with the same fields, the duration apart.
C4_SecondServedFromCache ==
    (resp.status # 0 /\ resp.obs.live # 0 /\ resp.obs.live \in resp.obs.after)
        => /\ resp.status = 200
           /\ resp.obs.fetches = << >>
           /\ resp.obs.sets = 0
           /\ <<Fields(resp.body[1])>> = answered[resp.obs.live]

\* the second answer, given a TTL after the first, with another duration
C4_Witness ==
    /\ resp.status = 200
    /\ resp.obs.live # 0
    /\ resp.obs.live \in resp.obs.after
    /\ cch[resp.url].ttl = 0
    /\ <<resp.body[1]>> # answered[resp.obs.live]

\* an item is stored under url whose TTL has run out
StaleItem(url) == url \in DOMAIN cch /\ cch[url].ttl < 0

\* the objects the cache holds
Stored == {cch[u].Object : u \in DOMAIN cch}

\* C5: a lookup that finds an item whose TTL has run out (the janitor has not
\* removed it yet) is a miss: the handler goes on to the primary fetch, with a
\* new record and not the stored one.
C5_ExpiredNeverHit ==
    [][\A p \in DOMAIN proc :
          (/\ Len(proc') = Len(proc)
           /\ proc[p].pc = "get"
           /\ proc'[p].pc # "get"
           /\ StaleItem(proc[p].url))
              => /\ proc'[p].pc = "visit"
                 /\ ~obs'[p].hit
                 /\ proc'[p].metadata \notin Stored]_vars

\* a page fetched anew while its expired item is still stored
C5_Witness ==
    \E p \in DOMAIN proc :
        /\ proc[p].pc = "set"
        /\ StaleItem(proc[p].url)
        /\ obs[p].fetches[1].target = proc[p].url
        /\ proc[p].metadata \notin Stored

\* a request in flight has had no fetch fail; a stored result had none either
C6_State ==
    /\ \A p \in DOMAIN proc : \A i \in 1..Len(obs[p].fetches) : obs[p].fetches[i].ok
    /\ resp.obs.sets > 0 => \A i \in 1..Len(resp.obs.fetches) : resp.obs.fetches[i].ok
    /\ (resp.status # 0 /\ \E i \in 1..Len(resp.obs.fetches) : ~resp.obs.fetches[i].ok)
          => resp.status = 500
    /\ resp.status = 500
          => /\ resp.error = "Failed to fetch metadata"
             /\ resp.body = << >>
             /\ resp.obs.sets = 0
             /\ resp.obs.fetches # << >>
             /\ ~resp.obs.fetches[Len(resp.obs.fetches)].ok

\* C6: a failed primary or fallback fetch ends the request with 500 "Failed to
\* fetch metadata" and no record; the request has stored nothing and its
\* failing step leaves the cache as it was; only requests all of whose fetches
\* succeeded store.
C6_FetchFailureCachesNothing ==
    [][/\ C6_State'
       /\ resp'.status = 500 => cch' = cch]_vars

\* the fallback fetch failed after a successful primary fetch
C6_Witness ==
    /\ resp.status = 500
    /\ Len(resp.obs.fetches) = 2
    /\ resp.obs.fetches[1].ok

\* the contents of the meta elements of doc with this property, in document order
RECURSIVE Contents(_, _)
Contents(doc, property) ==
    IF doc = << >> THEN << >>
    ELSE IF Head(doc).el = "meta:property" /\ Head(doc).k = property
         THEN <<Head(doc).v>> \o Contents(Tail(doc), property)
         ELSE Contents(Tail(doc), property)

\* scheme://host of url
DomainRoot(url) == Parse(url).Scheme \o <<":", "/", "/">> \o Parse(url).Host

\* the request is past its fetches
PastFetches(p) == proc[p].pc \in {"set", "duration", "respond"} /\ ~obs[p].hit

\* C7 for one request (o what it did, url its url, done whether its fetches are over,
\* sitename the site name of its result)
C7_Request(o, url, done, sitename) ==
    LET f == o.fetches
        siteNames == Contents(f[1].doc, "og:site_name")
        titles == Contents(f[2].doc, "og:title")
    IN  /\ Len(f) <= 2
        /\ f # << >> => f[1].target = url
        /\ (f # << >> /\ f[1].ok /\ siteNames = << >> /\ done)
              => /\ Len(f) = 2
                 /\ f[2].target = DomainRoot(url)
                 /\ f[2].ok => sitename = IF titles = << >> THEN Empty
                                           ELSE titles[Len(titles)]
        /\ (f # << >> /\ f[1].ok /\ siteNames # << >> /\ siteNames[Len(siteNames)] # Empty)
              => /\ Len(f) = 1
                 /\ done => sitename = siteNames[Len(siteNames)]

\* C7: a page without og:site_name is followed by exactly one more fetch, of the
\* root of its domain, issued after the page was fetched, and the site name is
\* that document's og:title if it has one and "" otherwise; a page with a
\* non-empty og:site_name is followed by none; no request fetches more than twice.
C7_FallbackFetch ==
    /\ \A p \in DOMAIN proc :
          /\ C7_Request(obs[p], proc[p].url, PastFetches(p),
                        heap[proc[p].metadata].Sitename)
          /\ proc[p].pc = "visit" => obs[p].fetches = << >>
          /\ proc[p].pc = "visitDomain" => Len(obs[p].fetches) = 1
    /\ resp.status = 200 /\ ~resp.obs.hit
          => C7_Request(resp.obs, resp.url, TRUE, resp.body[1].Sitename)
    /\ resp.status = 500
          => C7_Request(resp.obs, resp.url, resp.obs.fetches[1].ok, Empty)

\* a page without site name answered with the og:title of its domain root
C7_Witness ==
    /\ resp.status = 200
    /\ Len(resp.obs.fetches) = 2
    /\ resp.obs.fetches[2].target = <<"h", ":", "/", "/", "a">>
    /\ resp.body[1].Sitename = <<"h">>

\* C8: every 200 response carries the duration its own request measured.
C8_DurationOfOwnRequest ==
    resp.status = 200 => resp.body[1].Duration = resp.obs.duration

\* C9: a record stored in the cache keeps every field for as long as it stays
\* stored under its url.
C9_StoredRecordUntouched ==
    [][\A u \in DOMAIN cch :
          (u \in DOMAIN cch' /\ cch'[u].Object = cch[u].Object)
              => heap'[cch[u].Object] = heap[cch[u].Object]]_vars

\* C10 as stated: a request answered 400 leaves the limiter's tokens and the
\* cache as they were and issues no fetch.
C10_RejectedLeavesTokens ==
    [][resp'.status = 400 =>
          /\ tokens' = tokens
          /\ cch' = cch
          /\ heap' = heap
          /\ resp'.obs.fetches = << >>]_vars

\* C10 amended: a request answered 400 has done no cache lookup, fetch or store
\* and leaves the cache, the stored records and the other handlers as they
\* were; the limiter has charged it the one token of its admission.
C10_RejectedBeforeFetcher ==
    [][resp'.status = 400 =>
          /\ resp'.error \in {"URL parameter is required", "Invalid URL"}
          /\ resp'.body = << >>
          /\ resp'.obs.lookups = 0
          /\ resp'.obs.fetches = << >>
          /\ resp'.obs.sets = 0
          /\ cch' = cch
          /\ heap' = heap
          /\ proc' = proc
          /\ tokens' = tokens - TokenUnit]_vars

\* an invalid url rejected while the cache holds an entry
C10_Witness ==
    /\ resp.status = 400
    /\ resp.error = "Invalid URL"
    /\ cch # EmptyCache

\* the User-Agent the configuration asks for
ConfiguredUserAgent == mainUserAgent(environ)

\* C11: every primary GET carries the configured User-Agent (the value of
\* LINK2JSON_USER_AGENT, the default when it is unset or empty), never an empty one.
C11_PrimaryCarriesUserAgent ==
    \A p \in DOMAIN proc :
        obs[p].fetches # << >>
            => /\ obs[p].fetches[1].agent = ConfiguredUserAgent
               /\ obs[p].fetches[1].agent # Empty

\* the next step of handler p, whichever it is
HandlerStep(p) ==
    \/ Lookup(p)
    \/ VisitFails(p)
    \/ \E doc \in Docs : Visit(p, doc)
    \/ VisitDomainFails(p)
    \/ \E doc \in Docs : VisitDomain(p, doc)
    \/ Store(p)
    \/ SetDuration(p)
    \/ Respond(p)

\* handler q is inside c.Visit or c2.Visit
InFetch(q) == proc[q].pc \in {"visit", "visitDomain"}

\* C12: while a handler is inside its primary or fallback fetch, every other
\* handler in flight can take its next step, whatever it is (lookup, its own
\* fetch, store, duration, response), and a new request can pass the limiter.
C12_FetchBlocksNoOther ==
    \A q \in DOMAIN proc :
        InFetch(q)
            => /\ \A p \in DOMAIN proc \ {q} : ENABLED HandlerStep(p)
               /\ (requests < MaxReq /\ Len(proc) + 1 \in Procs)
                     => ENABLED (\E u \in Urls : Request(Len(proc) + 1, u))

\* a request that looked up, fetched, stored and was answered while an older
\* one was inside its primary fetch
C12_Witness ==
    \E q \in DOMAIN proc :
        /\ proc[q].pc = "visit"
        /\ UrlA \in DOMAIN cch
        /\ cch[UrlA].Object > proc[q].metadata
        /\ resp.status = 200
        /\ resp.obs.sets = 1
        /\ Len(resp.obs.fetches) = 2

\* the pages fetched by the requests in flight and by the request just answered
\* from the network, each with the record extracted from it
Extractions ==
    {[doc |-> obs[p].fetches[1].doc, result |-> heap[proc[p].metadata]] :
        p \in {q \in DOMAIN proc : obs[q].fetches # << >>}}
    \cup (IF resp.status = 200 /\ ~resp.obs.hit
          THEN {[doc |-> resp.obs.fetches[1].doc, result |-> resp.body[1]]}
          ELSE {})

\* the values of the elements el of doc whose name / property / rel is in keys,
\* in document order
RECURSIVE Values(_, _, _)
Values(doc, el, keys) ==
    IF doc = << >> THEN << >>
    ELSE IF Head(doc).el = el /\ Head(doc).k \in keys
         THEN <<Head(doc).v>> \o Values(Tail(doc), el, keys)
         ELSE Values(Tail(doc), el, keys)

Last(seq) == seq[Len(seq)]

\* C13: description is "" for a document without <meta name="description"> and
\* otherwise the content of the last such tag in document order.
C13_DescriptionLastWins ==
    \A x \in Extractions :
        LET contents == Values(x.doc, "meta:name", {"description"}) IN
        x.result.Description = IF contents = << >> THEN Empty ELSE Last(contents)

\* a page with two description tags answered with the content of the second
C13_Witness ==
    /\ resp.status = 200
    /\ ~resp.obs.hit
    /\ Values(resp.obs.fetches[1].doc, "meta:name", {"description"}) = << <<"a">>, <<"b">> >>
    /\ resp.body[1].Description = <<"b">>

\* the first element of seq that is not "", "" when there is none
RECURSIVE FirstNonEmpty(_)
FirstNonEmpty(seq) ==
    IF seq = << >> THEN Empty
    ELSE IF Head(seq) # Empty THEN Head(seq)
    ELSE FirstNonEmpty(Tail(seq))

\* C14 as stated: title is the text of the first <title> element in document
\* order ("" without any), and later <title> elements never change it.
C14_TitleOfFirstElement ==
    \A x \in Extractions :
        LET texts == Values(x.doc, "title", {""}) IN
        x.result.Title = IF texts = << >> THEN Empty ELSE Head(texts)

\* C14 amended: title is the text of the first <title> element, in document
\* order, whose text is not empty ("" when there is none); a <title> visited
\* after a non-empty title was captured never changes it.
C14_TitleFirstNonEmpty ==
    \A x \in Extractions :
        x.result.Title = FirstNonEmpty(Values(x.doc, "title", {""}))

\* a page whose first title is "a", followed by the title "b", answered with "a"
C14_Witness ==
    /\ resp.status = 200
    /\ ~resp.obs.hit
    /\ Values(resp.obs.fetches[1].doc, "title", {""}) = << <<"a">>, <<"b">> >>
    /\ resp.body[1].Title = <<"a">>

ImageProperties ==
    {"og:image", "og:image:alt", "og:image:type", "og:image:width", "og:image:height"}

\* C15: the record extracted from a page holds exactly one image descriptor,
\* however many og:image and og:image:* tags the page has; without any such tag
\* every field of that descriptor is empty or zero.
C15_OneImageDescriptor ==
    \A x \in Extractions :
        /\ Len(x.result.Images) = 1
        /\ Values(x.doc, "meta:property", ImageProperties) = << >>
              => x.result.Images =
                    <<[URL |-> << >>, Alt |-> << >>, Type |-> << >>,
                        Width |-> 0, Height |-> 0]>>

\* a page with the og:image tags "a" and "b" and a width, answered with the one
\* descriptor of "b"
C15_Witness ==
    /\ resp.status = 200
    /\ ~resp.obs.hit
    /\ Values(resp.obs.fetches[1].doc, "meta:property", {"og:image"}) = << <<"a">>, <<"b">> >>
    /\ Len(resp.obs.fetches[1].doc) = 3
    /\ Len(resp.body[1].Images) = 1
    /\ resp.body[1].Images[1].URL = <<"b">>
    /\ resp.body[1].Images[1].Width = 12

\* s is a decimal integer: digits, at least one, after an optional sign
IsInteger(s) ==
    LET digits == IF s # << >> /\ Head(s) \in {"+", "-"} THEN Tail(s) ELSE s IN
    /\ digits # << >>
    /\ \A i \in 1..Len(digits) : digits[i] \in Digits

\* e is an og:image:width or og:image:height tag whose content is no integer
Unparsable(e) ==
    /\ e.el = "meta:property"
    /\ e.k \in {"og:image:width", "og:image:height"}
    /\ ~IsInteger(e.v)

\* doc without those tags
Parsable(doc) == SelectSeq(doc, LAMBDA e : ~Unparsable(e))

\* the fields of a record that the primary fetch fills
PageFields(r) ==
    [Title |-> r.Title, Description |-> r.Description, Favicon |-> r.Favicon,
     Images |-> r.Images, Domain |-> r.Domain, URL |-> r.URL]

\* C16 as stated: a page with an og:image:width (og:image:height) tag whose
\* content is no integer yields width 0 (height 0).
C16_UnparsableYieldsZero ==
    \A x \in Extractions :
        /\ (\E i \in 1..Len(x.doc) : Unparsable(x.doc[i]) /\ x.doc[i].k = "og:image:width")
              => x.result.Images[1].Width = 0
        /\ (\E i \in 1..Len(x.doc) : Unparsable(x.doc[i]) /\ x.doc[i].k = "og:image:height")
              => x.result.Images[1].Height = 0

\* C16 amended: an og:image:width (og:image:height) tag whose content is no
\* integer changes nothing: the record, width and height included, is the one
\* extracted from the page without such tags, so width (height) is 0 when no
\* width (height) tag of the page is an integer; the fetch succeeds all the same.
C16_UnparsableIgnored ==
    \A x \in Extractions :
        /\ PageFields(x.result) = PageFields(Scrape(NewResult(x.result.URL), Parsable(x.doc)))
        /\ SelectSeq(Values(x.doc, "meta:property", {"og:image:width"}), IsInteger) = << >>
              => x.result.Images[1].Width = 0
        /\ SelectSeq(Values(x.doc, "meta:property", {"og:image:height"}), IsInteger) = << >>
              => x.result.Images[1].Height = 0

\* the page with the title "a", the width "abc" and the description "a",
\* answered 200 with width 0, that title and that description
C16_Witness ==
    /\ resp.status = 200
    /\ ~resp.obs.hit
    /\ resp.obs.fetches[1].doc =
          << Elem("title", "", <<"a">>),
             Elem("meta:property", "og:image:width", <<"a", "b", "c">>),
             Elem("meta:name", "description", <<"a">>) >>
    /\ resp.body[1].Images[1].Width = 0
    /\ resp.body[1].Title = <<"a">>
    /\ resp.body[1].Description = <<"a">>

\* C17: favicon is the record's domain followed by the href of the first link
\* element, in document order, whose rel is icon, shortcut icon,
\* apple-touch-icon or apple-touch-icon-precomposed, whatever matching links
\* follow it; without a matching link it is "".
C17_FaviconFirstWins ==
    \A x \in Extractions :
        LET hrefs == Values(x.doc, "link",
                            {"icon", "shortcut icon", "apple-touch-icon",
                             "apple-touch-icon-precomposed"})
        IN  /\ x.result.Domain = DomainRoot(x.result.URL)
            /\ x.result.Favicon =
                  IF hrefs = << >> THEN << >> ELSE x.result.Domain \o Head(hrefs)

\* a stylesheet link, then an apple-touch-icon, then an icon: the favicon is
\* the apple-touch-icon's
C17_Witness ==
    /\ resp.status = 200
    /\ ~resp.obs.hit
    /\ resp.obs.fetches[1].doc =
          << Elem("link", "stylesheet", <<"/", "n">>),
             Elem("link", "apple-touch-icon", <<"/", "t">>),
             Elem("link", "icon", <<"/", "a">>) >>
    /\ resp.body[1].Favicon = <<"h", ":", "/", "/", "a", "/", "t">>

\* C18: the record stored under a key has that key as its url and the
\* scheme://host of that key as its domain, in every state and under every
\* interleaving of the requests that store.
C18_EntryKeyedByItsUrl ==
    \A k \in DOMAIN cch :
        /\ heap[cch[k].Object].URL = k
        /\ heap[cch[k].Object].Domain = DomainRoot(k)

\* both pages stored, the entry of h://b/p replaced by a request that ran
\* concurrently with the one that stored it first
C18_Witness ==
    /\ DOMAIN cch = {UrlA, UrlB}
    /\ heap[cch[UrlB].Object].Domain = <<"h", ":", "/", "/", "b">>
    /\ \E p \in DOMAIN proc :
          /\ proc[p].url = UrlB
          /\ obs[p].sets = 1
          /\ proc[p].metadata # cch[UrlB].Object

\* this step is handler p leaving the statement at pc
Leaves(p, pc) ==
    /\ Len(proc') = Len(proc)
    /\ proc[p].pc = pc
    /\ proc'[p].pc # pc

\* C19: a set stores its record under its url with a life of a full TTL,
\* whether or not the url had an entry, and touches no other entry; a cache hit
\* is served only from an entry whose TTL has not run out and leaves every
\* entry, its remaining life included, as it was; the life an entry has left
\* never grows but by a set for its url.
C19_LifeCountedFromSet ==
    [][/\ \A p \in DOMAIN proc :
             Leaves(p, "set")
                 => /\ DOMAIN cch' = DOMAIN cch \cup {proc[p].url}
                    /\ cch'[proc[p].url] = [Object |-> proc[p].metadata, ttl |-> TTL]
                    /\ \A u \in DOMAIN cch \ {proc[p].url} : cch'[u] = cch[u]
       /\ \A p \in DOMAIN proc :
             (Leaves(p, "get") /\ obs'[p].hit)
                 => /\ cch' = cch
                    /\ cch[proc[p].url].ttl >= 0
                    /\ cch[proc[p].url].ttl <= TTL
       /\ \A u \in DOMAIN cch \cap DOMAIN cch' :
             cch'[u].ttl > cch[u].ttl
                 => \E p \in DOMAIN proc : Leaves(p, "set") /\ proc[p].url = u]_vars

\* an entry stored, aged by a TTL and then replaced by the set
\* of a concurrent request, with a full TTL ahead of it again
C19_Witness ==
    \E p, q \in DOMAIN proc :
        /\ p # q
        /\ proc[p].url = proc[q].url
        /\ proc[q].pc = "respond"
        /\ obs[q].sets = 1
        /\ obs[q].duration = 0
        /\ proc[q].elapsed = TTL
        /\ obs[p].sets = 1
        /\ cch[proc[p].url] = [Object |-> proc[p].metadata, ttl |-> TTL]

\* the ticks between arrival i and the later arrival j
RECURSIVE Span(_, _)
Span(i, j) == IF j <= i THEN 0 ELSE admits[j].gap + Span(i, j - 1)

\* those ticks were all counted (no gap reached the cap of the observation clock)
Measured(i, j) == \A k \in (i + 1)..j : admits[k].gap < ClockCap

\* the requests among arrivals i..j that got past the limiter
Passed(i, j) == Cardinality({k \in i..j : admits[k].ok})

\* the bucket holds between 0 and 3 tokens, and of the requests arriving within
\* any T seconds at most 3 + T get past the limiter
C20_State ==
    /\ tokens >= 0
    /\ tokens <= 3 * TicksPerSec
    /\ \A i, j \in 1..Len(admits) :
          (i <= j /\ Measured(i, j))
              => Passed(i, j) * TicksPerSec <= 3 * TicksPerSec + Span(i, j)

\* C20: under every interleaving of arrivals with the handlers in flight, the
\* bucket stays between 0 and 3 tokens; a request gets past the limiter only
\* when a whole token is there and takes exactly that one, a denied request
\* takes nothing and is answered 429; so two requests are never admitted on one
\* token, and at most 3 + T requests get past the limiter in any T seconds.
C20_TokensBoundAdmissions ==
    [][/\ C20_State'
       /\ Len(admits') = Len(admits) + 1
             => IF admits'[Len(admits')].ok
                THEN /\ tokens >= TicksPerSec
                     /\ tokens' = tokens - TicksPerSec
                     /\ resp'.status # 429
                ELSE /\ tokens < TicksPerSec
                     /\ tokens' = tokens
                     /\ resp'.status = 429]_vars

\* four arrivals at one instant: the third took the last token and is still
\* in flight when the fourth is denied
C20_Witness ==
    /\ Len(admits) = 4
    /\ \A k \in 2..4 : admits[k].gap = 0
    /\ admits[3].ok
    /\ ~admits[4].ok
    /\ resp.status = 429
    /\ tokens = 0
    /\ proc # << >>
    /\ proc[Len(proc)].pc = "get"

====
